---- MODULE Spec2Model ----
(***************************************************************************)
(* Travel-Planner-Multi-Agent-A2A: the hotel search tool, the booking      *)
(* simulator and the travel planner's HTTP router.                         *)
(*                                                                         *)
(* Text is modelled by TLA+ strings; a JSON document returned by           *)
(* json.dumps(..., indent=2) is modelled by the value that is serialised   *)
(* (kind = "json"), a plain Python string by kind = "text".                *)
(***************************************************************************)
EXTENDS Integers, Sequences, FiniteSets, TLC

VARIABLES
    env_key,      \* os.environ["SERPER_API_KEY"] of the hotel agent process
    provider,     \* what the search provider answers when it is called
    s_pc,         \* "ready" before the search invocation, then who made it
    s_args,       \* arguments HotelSearchTool._run was invoked with
    sent,         \* the requests.post calls made during the invocation
    s_ret,        \* the value the invocation returned
    hash_seed,    \* hash(hotel_name) of the running interpreter, per name
    today,        \* the system clock's current date
    b_pc,         \* position inside HotelBookingTool._run
    b_args,       \* arguments of the booking call in progress / last made
    b_id,         \* local variable booking_id
    b_ret,        \* the value the last booking call returned
    first_id,     \* per hotel name, the first booking_id returned for it today
    ticks,        \* number of midnights passed so far
    responses,    \* the HTTP responses of the router, one per request
    snippet,      \* input of the price extraction
    cost          \* its estimated_cost_usd

searchVars == <<env_key, provider, s_pc, s_args, sent, s_ret>>
bookVars   == <<hash_seed, today, b_pc, b_args, b_id, b_ret, first_id, ticks>>
routerVars == <<responses>>
priceVars  == <<snippet, cost>>
vars == <<searchVars, bookVars, routerVars, priceVars>>

Min(a, b) == IF a <= b THEN a ELSE b
Char(s, i) == SubSeq(s, i, i)

(***************************************************************************)
(* Bounds                                                                  *)
(***************************************************************************)
MaxOrganic    == 6   \* longest "organic" array the provider returns
MaxSnippetLen == 5   \* longest snippet fed to the price extraction
MaxTicks      == 1   \* midnights
MaxRequests   == 2   \* requests served by the router

(***************************************************************************)
(* Price extraction: re.search of a dollar sign, one or more digits, an    *)
(* optional comma or full stop, and any further digits (agent.py line 81)  *)
(***************************************************************************)
Digits == {"0", "1", "2", "3", "4", "5", "6", "7", "8", "9"}
IsDigit(c) == c \in Digits

\* A pattern whose digit classes match one digit only
OneDigit(s, i) == IF i <= Len(s) /\ IsDigit(Char(s, i)) THEN i ELSE i - 1

\* End of the longest run of digits of s that starts at position i
\* (i - 1 when s has no digit at i): what a greedy [0-9]* consumes.
RECURSIVE DigitRunEnd(_, _)
DigitRunEnd(s, i) ==
    IF i <= Len(s) /\ IsDigit(Char(s, i)) THEN DigitRunEnd(s, i + 1) ELSE i - 1

\* The pattern can match at i: a '$' followed by at least one digit.
MatchesAt(s, i) ==
    /\ i + 1 <= Len(s)
    /\ Char(s, i) = "$"
    /\ IsDigit(Char(s, i + 1))

\* re.search scans left to right and returns the leftmost match; 0 if none.
MatchStart(s) ==
    IF \E i \in 1..Len(s) : MatchesAt(s, i)
    THEN CHOOSE i \in 1..Len(s) :
            MatchesAt(s, i) /\ \A j \in 1..(i - 1) : ~MatchesAt(s, j)
    ELSE 0

\* group(1) of the match starting at i: greedy digits, one optional ',' or
\* '.', greedy digits.  Nothing follows the group in the pattern, so the
\* greedy choice is never backtracked.
Group1(s, i) ==
    LET e1 == DigitRunEnd(s, i + 1)
        e2 == IF e1 + 1 <= Len(s) /\ Char(s, e1 + 1) \in {",", "."}
              THEN e1 + 1 ELSE e1
        e3 == DigitRunEnd(s, e2 + 1)
    IN  SubSeq(s, i + 1, e3)

\* price_usd if price_usd else "N/A"
EstimatedCost(s) ==
    LET i == MatchStart(s)
    IN  IF i = 0 THEN "N/A" ELSE "$" \o Group1(s, i) \o " USD"

(***************************************************************************)
(* JSON values of the provider's response                                  *)
(***************************************************************************)
Str(v)  == [t |-> "str", v |-> v]      \* a JSON string
Null    == [t |-> "null", v |-> ""]    \* JSON null: present, not a string
Absent  == [t |-> "absent", v |-> ""]  \* the key is missing from the object

\* dict.get(key, ""): the value under the key, whatever it is (None for a
\* JSON null), or the default "" when the key is missing
Get(result, key) == IF result[key].t = "absent" THEN Str("") ELSE result[key]

(***************************************************************************)
(* Inputs                                                                  *)
(***************************************************************************)
Locations == {"Paris", "Goa"}
CheckIns  == {"2024-07-15", "2024-07-22"}
CheckOuts == {"2024-07-22"}
Budgets   == {"any", "luxury", "Any", ""}
Omitted   == "<omitted>"               \* the caller passes no budget

ApiKeys   == {"sk-live"}
NoKey     == "<unset>"                 \* os.getenv returns None
EnvKeys   == ApiKeys \cup {NoKey, ""}

\* Organic results the provider may return: complete with a price, with
\* every key missing, with a null title and link, and with a null snippet.
OrganicResults ==
    { [title |-> Str("Hotel Lux"), snippet |-> Str("From $123 a night"),
       link |-> Str("https://lux.example")],
      [title |-> Absent, snippet |-> Absent, link |-> Absent],
      [title |-> Null, snippet |-> Str("Free breakfast"), link |-> Null],
      [title |-> Str("Broken"), snippet |-> Null,
       link |-> Str("https://broken.example")] }

\* The sequences over S of length at most n
SeqsUpTo(S, n) == UNION {[1..k -> S] : k \in 0..n}

TransportErrors == {"HTTPSConnectionPool(host='google.serper.dev', port=443): Max retries exceeded"}
HttpErrors      == {"403 Client Error: Forbidden for url: https://google.serper.dev/search"}
JsonErrors      == {"Expecting value: line 1 column 1 (char 0)"}
\* str(TypeError) of re.search on a non-string, by interpreter version
TypeErrorTexts  == {"expected string or bytes-like object",
                    "expected string or bytes-like object, got 'NoneType'"}

\* What can come back from requests.post / raise_for_status / response.json
ProviderOutcomes(maxOrganic) ==
       { [kind |-> "transport_error", text |-> e, has_organic |-> FALSE, organic |-> <<>>]
           : e \in TransportErrors }
  \cup { [kind |-> "http_error", text |-> e, has_organic |-> FALSE, organic |-> <<>>]
           : e \in HttpErrors }
  \cup { [kind |-> "bad_json", text |-> e, has_organic |-> FALSE, organic |-> <<>>]
           : e \in JsonErrors }
  \cup { [kind |-> "ok", text |-> "", has_organic |-> FALSE, organic |-> <<>>] }
  \cup { [kind |-> "ok", text |-> "", has_organic |-> TRUE, organic |-> o]
           : o \in SeqsUpTo(OrganicResults, maxOrganic) }

(***************************************************************************)
(* HotelSearchTool._run                                                    *)
(***************************************************************************)
SearchUrl    == "https://google.serper.dev/search"
NumRequested == 10
ResultLimit  == 5

Text(s)  == [kind |-> "text", text |-> s, items |-> <<>>]
Json(xs) == [kind |-> "json", text |-> "", items |-> xs]

\* A slice that stops one element early
FirstFour(seq, n) == SubSeq(seq, 1, Min(n - 1, Len(seq)))

\* seq[:n]
FirstN(seq, n) == SubSeq(seq, 1, Min(n, Len(seq)))

\* The default of the budget parameter
RunBudget(b) == IF b = Omitted THEN "any" ELSE b

\* A query that appends the budget whatever it is
AlwaysSuffix(location, check_in, check_out, budget) ==
    "Budget friendly hotels in " \o location \o " from " \o check_in
        \o " to " \o check_out \o " " \o budget \o " hotels"

SearchQuery(location, check_in, check_out, budget) ==
    LET base == "Budget friendly hotels in " \o location \o " from " \o check_in
                    \o " to " \o check_out
    IN  IF budget # "any" THEN base \o " " \o budget \o " hotels" ELSE base

\* One element of results
ResultItem(result, a) ==
    [ name               |-> Get(result, "title"),
      description        |-> Get(result, "snippet"),
      link               |-> Get(result, "link"),
      location           |-> a.location,
      check_in           |-> a.check_in,
      check_out          |-> a.check_out,
      budget             |-> a.budget,
      estimated_cost_usd |-> EstimatedCost(Get(result, "snippet").v) ]

\* The body of the try block once the call has been made: the value returned
\* for provider outcome o, with typeErr the text of the TypeError that
\* re.search raises on a snippet that is no string.
AfterPost(a, o, typeErr) ==
    IF o.kind # "ok"
    THEN Text("Error searching for hotels: " \o o.text)
    ELSE LET taken == IF o.has_organic THEN FirstN(o.organic, ResultLimit) ELSE <<>>
         IN  IF \E i \in 1..Len(taken) : Get(taken[i], "snippet").t # "str"
             THEN Text("Error searching for hotels: " \o typeErr)
             ELSE Json([i \in 1..Len(taken) |-> ResultItem(taken[i], a)])

PostRequest(key, a) ==
    [url |-> SearchUrl, api_key |-> key,
     q |-> SearchQuery(a.location, a.check_in, a.check_out, a.budget),
     num |-> NumRequested]

\* A test for None that lets the empty string through
KeyUnsetOnly(key) == key = NoKey

\* not serper_api_key
KeyMissing(key) == key = NoKey \/ key = ""

\* A call that is made a second time
PostsWithRetry(key, a) ==
    IF KeyMissing(key) THEN <<>> ELSE <<PostRequest(key, a), PostRequest(key, a)>>

\* The requests the invocation posts
Posts(key, a) == IF KeyMissing(key) THEN <<>> ELSE <<PostRequest(key, a)>>

HotelSearchTool_run(caller, location, check_in, check_out, budgetArg, typeErr) ==
    LET a == [location |-> location, check_in |-> check_in,
              check_out |-> check_out, budget |-> RunBudget(budgetArg)]
        posts == Posts(env_key, a)
    IN  /\ s_pc = "ready"
        /\ s_pc' = caller
        /\ s_args' = a
        /\ sent' = posts
        /\ s_ret' = IF posts = <<>>
                    THEN Text("SERPER_API_KEY not found in environment variables")
                    ELSE AfterPost(a, provider, typeErr)
        /\ UNCHANGED <<env_key, provider>>

\* The default of SimpleHotelAgent.search_hotels
AgentBudget(b) == IF b = Omitted THEN "budget" ELSE b

\* The tool invoked directly (by the agent framework)
SearchRun ==
    \E l \in Locations, ci \in CheckIns, co \in CheckOuts,
       b \in Budgets \cup {Omitted}, te \in TypeErrorTexts :
        /\ HotelSearchTool_run("_run", l, ci, co, b, te)
        /\ UNCHANGED <<bookVars, routerVars, priceVars>>

\* SimpleHotelAgent.search_hotels: passes its arguments on; _run raises
\* nothing, so the except branch returns nothing of its own.
SearchHotels ==
    \E l \in Locations, ci \in CheckIns, co \in CheckOuts,
       b \in Budgets \cup {Omitted}, te \in TypeErrorTexts :
        /\ HotelSearchTool_run("search_hotels", l, ci, co, AgentBudget(b), te)
        /\ UNCHANGED <<bookVars, routerVars, priceVars>>

\* SimpleHotelAgent.process_query: the search it starts with
ProcessQuery ==
    \E te \in TypeErrorTexts :
        /\ HotelSearchTool_run("process_query", "Paris", "2024-07-15", "2024-07-22",
                               AgentBudget("budget"), te)
        /\ UNCHANGED <<bookVars, routerVars, priceVars>>

NoArgs == [location |-> "", check_in |-> "", check_out |-> "", budget |-> ""]
NoRet  == [kind |-> "none", text |-> "", items |-> <<>>]

NextSearch == SearchRun \/ SearchHotels \/ ProcessQuery

(***************************************************************************)
(* The price extraction alone, over every short snippet                    *)
(***************************************************************************)
Alphabet == {"$", "1", "2", "3", ".", "a"}

RECURSIVE StringsOfLen(_)
StringsOfLen(n) ==
    IF n = 0 THEN {""}
    ELSE {s \o c : s \in StringsOfLen(n - 1), c \in Alphabet}

Snippets(maxLen) == UNION {StringsOfLen(n) : n \in 0..maxLen}

NotRun == "<not run>"

\* Lines 79-83 and 92 applied to one snippet
ExtractPrice ==
    /\ cost = NotRun
    /\ cost' = EstimatedCost(snippet)
    /\ UNCHANGED <<snippet, searchVars, bookVars, routerVars>>

(***************************************************************************)
(* The travel planner's router                                             *)
(***************************************************************************)
Messages == {"Plan a trip to Paris", ""}

\* travel_planner.plan_trip(message) returns a string or raises
PlannerOutcomes ==
       { [kind |-> "returns", text |-> t] : t \in {"Day 1: Louvre", ""} }
  \cup { [kind |-> "raises", text |-> t] : t \in {"Connection refused", ""} }

\* travel_planner.check_agent_status() results
AgentStatuses == {"hotel: up, car: up", "hotel: down, car: down"}

HttpError == 500

Response(endpoint, message, status, field, value) ==
    [endpoint |-> endpoint, message |-> message, status |-> status,
     body |-> {<<field, value>>}]

\* A handler that answers an exception with an empty plan beside the error
BothPlanAndError(message, o) ==
    [endpoint |-> "POST /plan", message |-> message,
     status |-> IF o.kind = "raises" THEN HttpError ELSE 200,
     body |-> IF o.kind = "raises"
              THEN {<<"plan", "">>, <<"detail", "Error: " \o o.text>>}
              ELSE {<<"plan", o.text>>}]

\* plan_trip: the response to POST /plan when the planner ends as o
PlanTripResponse(message, o) ==
    IF o.kind = "raises"
    THEN Response("POST /plan", message, HttpError, "detail", "Error: " \o o.text)
    ELSE Response("POST /plan", message, 200, "plan", o.text)

PlanTrip ==
    \E m \in Messages, o \in PlannerOutcomes :
        /\ Len(responses) < MaxRequests
        /\ responses' = Append(responses, [planner |-> o, resp |-> PlanTripResponse(m, o)])
        /\ UNCHANGED <<searchVars, bookVars, priceVars>>

NoPlanner == [kind |-> "none", text |-> ""]

HealthCheck ==
    /\ Len(responses) < MaxRequests
    /\ responses' = Append(responses,
          [planner |-> NoPlanner,
           resp |-> [endpoint |-> "GET /health", message |-> "", status |-> 200,
                     body |-> {<<"status", "healthy">>, <<"agent", "Travel_Planner_Agent">>}]])
    /\ UNCHANGED <<searchVars, bookVars, priceVars>>

CheckAgents ==
    \E st \in AgentStatuses :
        /\ Len(responses) < MaxRequests
        /\ responses' = Append(responses,
              [planner |-> NoPlanner,
               resp |-> Response("GET /agents/status", "", 200, "agents", st)])
        /\ UNCHANGED <<searchVars, bookVars, priceVars>>

Root ==
    /\ Len(responses) < MaxRequests
    /\ responses' = Append(responses,
          [planner |-> NoPlanner,
           resp |-> [endpoint |-> "GET /", message |-> "", status |-> 200,
                     body |-> {<<"agent", "Travel_Planner_Agent">>,
                               <<"description", "Travel planning agent that coordinates with hotel and car rental agents">>,
                               <<"endpoints", "/plan /health /agents/status">>,
                               <<"coordinated_agents", "http://localhost:10002 http://localhost:10003">>}]])
    /\ UNCHANGED <<searchVars, bookVars, priceVars>>

NextRouter == PlanTrip \/ HealthCheck \/ CheckAgents \/ Root

(***************************************************************************)
(* The booking simulator                                                   *)
(***************************************************************************)
HotelNames == {"Hotel X", "Taj"}
Guests     == {0, 2}
Stays      == { <<"2024-07-15", "2024-07-22">>, <<"2024-07-22", "2024-07-15">> }
GuestsDefault == 1                     \* guests when the caller passes none

\* hash(hotel_name) is a signed integer salted per interpreter process; these
\* stand for the values it can take: negative, below 1000, a multiple of
\* 10000 of either sign.
HashValues == {-20000, -12345, 7, 10000}

\* The clock: a calendar date
StartDates == { [y |-> 2024, m |-> 12, d |-> 31], [y |-> 2024, m |-> 2, d |-> 28] }

IsLeap(y) == (y % 4 = 0 /\ y % 100 # 0) \/ y % 400 = 0

DaysIn(y, m) ==
    IF m = 2 THEN (IF IsLeap(y) THEN 29 ELSE 28)
    ELSE IF m \in {4, 6, 9, 11} THEN 30 ELSE 31

NextDay(t) ==
    IF t.d < DaysIn(t.y, t.m) THEN [t EXCEPT !.d = t.d + 1]
    ELSE IF t.m < 12 THEN [y |-> t.y, m |-> t.m + 1, d |-> 1]
    ELSE [y |-> t.y + 1, m |-> 1, d |-> 1]

\* Decimal formatting
DigitChar(n) == SubSeq("0123456789", n + 1, n + 1)

RECURSIVE DecStr(_)
DecStr(n) == IF n < 10 THEN DigitChar(n) ELSE DecStr(n \div 10) \o DigitChar(n % 10)

RECURSIVE ZeroPad(_, _)
ZeroPad(str, w) == IF Len(str) >= w THEN str ELSE ZeroPad("0" \o str, w)

\* format(n, "0<w>d"): the sign counts towards the width
FormatD(n, w) ==
    IF n < 0 THEN "-" \o ZeroPad(DecStr(-n), w - 1) ELSE ZeroPad(DecStr(n), w)

\* date.strftime("%Y%m%d"); the clock's years have four digits
Strftime(t) == DecStr(t.y) \o FormatD(t.m, 2) \o FormatD(t.d, 2)

\* date.isoformat()
Isoformat(t) == FormatD(t.y, 4) \o "-" \o FormatD(t.m, 2) \o "-" \o FormatD(t.d, 2)

\* The remainder of C's division, which truncates towards zero
TruncMod(a, n) == IF a < 0 THEN -((-a) % n) ELSE a % n

\* Python's %: the result has the sign of the divisor
PyMod(a, n) == a % n

HashModulus == 10000
SuffixWidth == 4

\* Line 132
BookingId(t, h) == "HB" \o Strftime(t) \o FormatD(PyMod(h, HashModulus), SuffixWidth)

\* A booking that checks the number of guests
RejectsNoGuests(a) == IF a.guests > 0 THEN "confirmed" ELSE "rejected"

\* The status of the record: a literal
Status(a) == "confirmed"

\* Lines 134-142
Booking(id, a, t) ==
    [ booking_id   |-> id,
      hotel_name   |-> a.hotel_name,
      check_in     |-> a.check_in,
      check_out    |-> a.check_out,
      guests       |-> a.guests,
      status       |-> Status(a),
      booking_date |-> Isoformat(t) ]

NoBookArgs == [hotel_name |-> "", check_in |-> "", check_out |-> "", guests |-> 0]
NoBooking  == [booking_id |-> "", hotel_name |-> "", check_in |-> "", check_out |-> "",
               guests |-> 0, status |-> "", booking_date |-> ""]

\* HotelBookingTool._run up to the first reading of the clock
BookingTool_run_begin(hotel_name, check_in, check_out, guests) ==
    /\ b_pc = "idle"
    /\ b_args' = [hotel_name |-> hotel_name, check_in |-> check_in,
                  check_out |-> check_out, guests |-> guests]
    /\ b_id' = BookingId(today, hash_seed[hotel_name])
    /\ b_pc' = "line 134"
    /\ b_ret' = NoBooking
    /\ UNCHANGED <<hash_seed, today, first_id, ticks>>

\* The tool invoked directly
BookRun ==
    \E h \in HotelNames, st \in Stays, g \in Guests \cup {GuestsDefault} :
        /\ BookingTool_run_begin(h, st[1], st[2], g)
        /\ UNCHANGED <<searchVars, routerVars, priceVars>>

\* SimpleHotelAgent.book_hotel: passes its arguments on, guests defaulting to 1
BookHotel ==
    \E h \in HotelNames, st \in Stays, g \in Guests \cup {GuestsDefault} :
        /\ BookingTool_run_begin(h, st[1], st[2], g)
        /\ UNCHANGED <<searchVars, routerVars, priceVars>>

\* HotelBookingTool._run from the record to the return: the second reading
\* of the clock
BookReturn ==
    /\ b_pc = "line 134"
    /\ b_ret' = Booking(b_id, b_args, today)
    /\ first_id' = IF first_id[b_args.hotel_name] = "" /\ SubSeq(b_id, 3, 10) = Strftime(today)
                   THEN [first_id EXCEPT ![b_args.hotel_name] = b_id]
                   ELSE first_id
    /\ b_pc' = "idle"
    /\ UNCHANGED <<hash_seed, today, b_args, b_id, ticks>>
    /\ UNCHANGED <<searchVars, routerVars, priceVars>>

\* Midnight passes: date.today() changes
Tick ==
    /\ ticks < MaxTicks
    /\ ticks' = ticks + 1
    /\ today' = NextDay(today)
    /\ first_id' = [h \in HotelNames |-> ""]
    /\ UNCHANGED <<hash_seed, b_pc, b_args, b_id, b_ret>>
    /\ UNCHANGED <<searchVars, routerVars, priceVars>>

\* The agent's process is started again: a new interpreter salts its string
\* hashes afresh
Restart ==
    /\ b_pc = "idle"
    /\ hash_seed' \in [HotelNames -> HashValues]
    /\ UNCHANGED <<today, b_pc, b_args, b_id, b_ret, first_id, ticks>>
    /\ UNCHANGED <<searchVars, routerVars, priceVars>>

NextBooking == BookRun \/ BookHotel \/ BookReturn \/ Tick \/ Restart

(***************************************************************************)
(* Specifications: one per component, the others at rest                   *)
(***************************************************************************)
NoProvider == [kind |-> "ok", text |-> "", has_organic |-> FALSE, organic |-> <<>>]
RestSeed   == [h \in HotelNames |-> 7]
RestDate   == [y |-> 2024, m |-> 12, d |-> 31]
NoFirst    == [h \in HotelNames |-> ""]

InitSearch ==
    /\ env_key \in EnvKeys
    /\ provider \in ProviderOutcomes(MaxOrganic)
    /\ s_pc = "ready" /\ s_args = NoArgs /\ sent = <<>> /\ s_ret = NoRet
    /\ hash_seed = RestSeed /\ today = RestDate
    /\ b_pc = "idle" /\ b_args = NoBookArgs /\ b_id = "" /\ b_ret = NoBooking
    /\ first_id = NoFirst /\ ticks = 0
    /\ responses = <<>>
    /\ snippet = "" /\ cost = NotRun

InitBooking ==
    /\ env_key = NoKey
    /\ provider = NoProvider
    /\ s_pc = "ready" /\ s_args = NoArgs /\ sent = <<>> /\ s_ret = NoRet
    /\ hash_seed \in [HotelNames -> HashValues]
    /\ today \in StartDates
    /\ b_pc = "idle" /\ b_args = NoBookArgs /\ b_id = "" /\ b_ret = NoBooking
    /\ first_id = NoFirst /\ ticks = 0
    /\ responses = <<>>
    /\ snippet = "" /\ cost = NotRun

InitRouter ==
    /\ env_key = NoKey
    /\ provider = NoProvider
    /\ s_pc = "ready" /\ s_args = NoArgs /\ sent = <<>> /\ s_ret = NoRet
    /\ hash_seed = RestSeed /\ today = RestDate
    /\ b_pc = "idle" /\ b_args = NoBookArgs /\ b_id = "" /\ b_ret = NoBooking
    /\ first_id = NoFirst /\ ticks = 0
    /\ responses = <<>>
    /\ snippet = "" /\ cost = NotRun

InitPrice ==
    /\ env_key = NoKey
    /\ provider = NoProvider
    /\ s_pc = "ready" /\ s_args = NoArgs /\ sent = <<>> /\ s_ret = NoRet
    /\ hash_seed = RestSeed /\ today = RestDate
    /\ b_pc = "idle" /\ b_args = NoBookArgs /\ b_id = "" /\ b_ret = NoBooking
    /\ first_id = NoFirst /\ ticks = 0
    /\ responses = <<>>
    /\ snippet \in Snippets(MaxSnippetLen) /\ cost = NotRun

NextPrice == ExtractPrice

SpecSearch  == InitSearch /\ [][NextSearch]_vars
SpecBooking == InitBooking /\ [][NextBooking]_vars
SpecRouter  == InitRouter /\ [][NextRouter]_vars
SpecPrice   == InitPrice /\ [][NextPrice]_vars

(***************************************************************************)
(* Properties                                                              *)
(***************************************************************************)
Searched == s_pc # "ready"

\* The query the claim describes, written out
QueryBase ==
    "Budget friendly hotels in " \o s_args.location \o " from " \o s_args.check_in
        \o " to " \o s_args.check_out

\* C1: with no SERPER_API_KEY configured (unset or empty), every invocation
\* returns the fixed "SERPER_API_KEY not found" string and posts nothing to
\* the search provider, whatever the arguments.
C1_MissingKeyShortCircuits ==
    (Searched /\ env_key \in {NoKey, ""}) =>
        /\ s_ret = [kind |-> "text",
                    text |-> "SERPER_API_KEY not found in environment variables",
                    items |-> <<>>]
        /\ sent = <<>>

C1_Witness ==
    /\ s_pc = "_run" /\ env_key = ""
    /\ provider.kind = "ok" /\ Len(provider.organic) > 0
    /\ s_args.location = "Goa" /\ s_args.budget = "luxury"
    /\ sent = <<>> /\ s_ret.kind = "text"

\* C2: with a key configured, every invocation posts exactly one request to
\* the provider; when that call fails (transport error, HTTP error status,
\* or a body that is no JSON) the invocation returns the error text, not a
\* result list, and posts nothing more.
C2_OneCallErrorsDescribed ==
    (Searched /\ env_key \in ApiKeys) =>
        /\ Len(sent) = 1
        /\ sent[1].url = "https://google.serper.dev/search"
        /\ sent[1].api_key = env_key
        /\ s_ret.kind \in {"text", "json"}
        /\ provider.kind \in {"transport_error", "http_error", "bad_json"} =>
              /\ s_ret.kind = "text"
              /\ s_ret.items = <<>>
              /\ s_ret.text = "Error searching for hotels: " \o provider.text

C2_Witness ==
    /\ s_pc = "_run" /\ env_key \in ApiKeys
    /\ provider.kind = "http_error"
    /\ Len(sent) = 1
    /\ s_ret.text = "Error searching for hotels: 403 Client Error: Forbidden for url: https://google.serper.dev/search"

\* C5: the query posted is "Budget friendly hotels in {location} from
\* {check_in} to {check_out}", with nothing appended when budget is "any"
\* and " {budget} hotels" appended for every other budget.
C5_QueryFormat ==
    (Searched /\ sent # <<>>) =>
        /\ s_args.budget = "any" => sent[1].q = QueryBase
        /\ s_args.budget # "any" =>
              sent[1].q = QueryBase \o " " \o s_args.budget \o " hotels"

C5_Witness ==
    /\ s_pc = "_run" /\ s_args.budget = "luxury"
    /\ Len(sent) = 1
    /\ sent[1].q = "Budget friendly hotels in Paris from 2024-07-15 to 2024-07-22 luxury hotels"

\* What the claim reads under a key of an organic result: its string, JSON
\* null when the value is null, the empty string when the key is missing
Field(result, key) ==
    CASE result[key].t = "str"    -> [t |-> "str", v |-> result[key].v]
      [] result[key].t = "null"   -> [t |-> "null", v |-> ""]
      [] result[key].t = "absent" -> [t |-> "str", v |-> ""]

\* C6: a successful search returns one item per organic result for the
\* first 5 results only, in the provider's order; item i carries the title,
\* snippet and link of organic result i and the request's location,
\* check_in, check_out and budget.
C6_FirstFiveInOrder ==
    (Searched /\ s_ret.kind = "json") =>
        /\ Len(s_ret.items) = Min(5, Len(provider.organic))
        /\ \A i \in 1..Len(s_ret.items) :
              /\ s_ret.items[i].name = Field(provider.organic[i], "title")
              /\ s_ret.items[i].description = Field(provider.organic[i], "snippet")
              /\ s_ret.items[i].link = Field(provider.organic[i], "link")
              /\ s_ret.items[i].location = s_args.location
              /\ s_ret.items[i].check_in = s_args.check_in
              /\ s_ret.items[i].check_out = s_args.check_out
              /\ s_ret.items[i].budget = s_args.budget

C6_Witness ==
    /\ s_pc = "_run" /\ s_ret.kind = "json"
    /\ Len(provider.organic) = 6
    /\ Len(s_ret.items) = 5
    /\ s_ret.items[1].name = [t |-> "str", v |-> "Hotel Lux"]
    /\ s_ret.items[2].name = [t |-> "str", v |-> ""]
    /\ provider.organic[2].title.t = "absent"
    /\ s_ret.items[3].name.t = "null" /\ s_ret.items[3].link.t = "null"
    /\ s_ret.items[3].description = [t |-> "str", v |-> "Free breakfast"]
    /\ provider.organic[6].snippet.t = "null"

\* Where the text t occurs in s
OccursAt(s, t, i) == i + Len(t) - 1 <= Len(s) /\ SubSeq(s, i, i + Len(t) - 1) = t
Contains(s, t) == \E i \in 1..Len(s) : OccursAt(s, t, i)

\* A '$' immediately followed by a digit, at position i of s
DollarDigitAt(s, i) ==
    /\ i < Len(s)
    /\ SubSeq(s, i, i) = "$"
    /\ SubSeq(s, i + 1, i + 1) \in {"0", "1", "2", "3", "4", "5", "6", "7", "8", "9"}
NoDollarDigit(s) == \A i \in 1..Len(s) : ~DollarDigitAt(s, i)

\* C7 as stated: a snippet containing "$123" gives "$123 USD", a snippet
\* with no '$' followed by a digit gives "N/A".
C7_Original ==
    cost # NotRun =>
        /\ Contains(snippet, "$123") => cost = "$123 USD"
        /\ NoDollarDigit(snippet) => cost = "N/A"

\* C7 amended: when the first '$' followed by a digit starts "$123" and the
\* character after it, if any, is no digit, ',' or '.', the cost is
\* "$123 USD"; a snippet with no '$' followed by a digit gives "N/A".
C7_FirstPriceExtracted ==
    cost # NotRun =>
        /\ \A i \in 1..Len(snippet) :
              ( /\ OccursAt(snippet, "$123", i)
                /\ \A j \in 1..(i - 1) : ~DollarDigitAt(snippet, j)
                /\ \/ i + 4 > Len(snippet)
                   \/ SubSeq(snippet, i + 4, i + 4) \notin Digits \cup {",", "."} )
              => cost = "$123 USD"
        /\ NoDollarDigit(snippet) => cost = "N/A"

C7_Witness ==
    /\ snippet = "a$123" /\ cost = "$123 USD"

\* C8: each response to POST /plan is a 500 whose detail is "Error: " and
\* the exception text, with no plan, when the planner raised, and exactly
\* {plan: the planner's string} when it returned; never both.
C8_PlanOrError ==
    \A i \in 1..Len(responses) :
        LET r == responses[i].resp
            o == responses[i].planner
        IN  r.endpoint = "POST /plan" =>
              /\ o.kind = "raises" =>
                    r.status = 500 /\ r.body = {<<"detail", "Error: " \o o.text>>}
              /\ o.kind = "returns" =>
                    r.status = 200 /\ r.body = {<<"plan", o.text>>}
              /\ ~(\E f \in r.body : f[1] = "plan" /\ \E g \in r.body : g[1] = "detail")

C8_Witness ==
    \E i \in 1..Len(responses) :
        /\ responses[i].resp.endpoint = "POST /plan"
        /\ responses[i].planner = [kind |-> "raises", text |-> "Connection refused"]
        /\ responses[i].resp.status = 500
        /\ responses[i].resp.body = {<<"detail", "Error: Connection refused">>}

Returned == b_pc = "idle" /\ b_ret # NoBooking

\* C3: every booking returns status "confirmed" and echoes hotel_name,
\* check_in, check_out and guests, also for an inverted date range and for
\* zero guests, and posts nothing to any external system.
C3_AlwaysConfirmed ==
    Returned =>
        /\ b_ret.status = "confirmed"
        /\ b_ret.hotel_name = b_args.hotel_name
        /\ b_ret.check_in = b_args.check_in
        /\ b_ret.check_out = b_args.check_out
        /\ b_ret.guests = b_args.guests
        /\ sent = <<>>

C3_Witness ==
    /\ Returned
    /\ b_ret.guests = 0
    /\ b_ret.check_in = "2024-07-22" /\ b_ret.check_out = "2024-07-15"
    /\ b_ret.status = "confirmed"

\* The date digits of a booking_id
IdDate(id) == SubSeq(id, 3, 10)

\* C4 as stated: two bookings of the same hotel_name on the same day carry
\* the same booking_id.
C4_SameNameSameDaySameId ==
    (Returned /\ first_id[b_ret.hotel_name] # ""
              /\ IdDate(first_id[b_ret.hotel_name]) = IdDate(b_ret.booking_id))
        => b_ret.booking_id = first_id[b_ret.hotel_name]

\* The number a text of decimal digits denotes; -1 if it is not one
DigitVal(c) == CHOOSE n \in 0..9 : SubSeq("0123456789", n + 1, n + 1) = c
AllDigits(str) == \A i \in 1..Len(str) : SubSeq(str, i, i) \in Digits
RECURSIVE NumVal(_)
NumVal(str) ==
    IF Len(str) = 0 THEN 0
    ELSE 10 * NumVal(SubSeq(str, 1, Len(str) - 1)) + DigitVal(SubSeq(str, Len(str), Len(str)))

\* C9: the booking_id made at line 132 is "HB", the clock's date as
\* YYYYMMDD and four decimal digits whose value is in 0..9999 and congruent
\* to hash(hotel_name) modulo 10000: 14 characters, negative hashes included.
C9_BookingIdFormat ==
    [][ (b_pc = "idle" /\ b_pc' = "line 134") =>
          LET id == b_id'
              h  == hash_seed[b_args'.hotel_name]
          IN  /\ Len(id) = 14
              /\ SubSeq(id, 1, 2) = "HB"
              /\ AllDigits(SubSeq(id, 3, 14))
              /\ NumVal(SubSeq(id, 3, 6)) = today.y
              /\ NumVal(SubSeq(id, 7, 8)) = today.m
              /\ NumVal(SubSeq(id, 9, 10)) = today.d
              /\ NumVal(SubSeq(id, 11, 14)) \in 0..9999
              /\ \E k \in -2..2 : h = k * 10000 + NumVal(SubSeq(id, 11, 14))
      ]_vars

C9_Witness ==
    /\ Returned
    /\ b_ret.hotel_name = "Taj"
    /\ hash_seed["Taj"] = -12345
    /\ b_ret.booking_id = "HB202412317655"

\* C10 as stated: the date in booking_id is the day of booking_date.
C10_IdDateIsBookingDate ==
    Returned =>
        /\ SubSeq(b_ret.booking_id, 3, 6) = SubSeq(b_ret.booking_date, 1, 4)
        /\ SubSeq(b_ret.booking_id, 7, 8) = SubSeq(b_ret.booking_date, 6, 7)
        /\ SubSeq(b_ret.booking_id, 9, 10) = SubSeq(b_ret.booking_date, 9, 10)

====
